---- MODULE Spec2Model ----
(***************************************************************************)
(* Transcript benchmarking scripts of Long-Form-Audio-Eval.                 *)
(*                                                                         *)
(* scripts/calculate_benchmarks.py and scripts/evaluate_transcripts.py     *)
(* compare one reference transcript with the transcript of every run in a  *)
(* runs-config and rank the runs.  The word and character alignment is     *)
(* delegated to the jiwer library (rapidfuzz Levenshtein edit operations), *)
(* whose source is not part of the repository: the alignment operators     *)
(* below follow the dynamic programme of the design document (4.2), with   *)
(* the backtrack preference left open (tieOrder), and the library's        *)
(* rejection of an empty reference string.                                 *)
(*                                                                         *)
(* A text is modelled after load_text / f.read().strip() and whitespace    *)
(* splitting: a sequence of words.  Percentages rounded to two decimals    *)
(* are integers in hundredths of a percent (2500 is 25.00%); unrounded     *)
(* ratios are records [num, den].                                          *)
(***************************************************************************)
EXTENDS Integers, Sequences, FiniteSets, TLC

VARIABLES reference, hypothesis, tieOrder, metrics, pc,
          script, config, idx, results, log, saved, ranking,
          disk, call

vars == <<reference, hypothesis, tieOrder, metrics, pc,
          script, config, idx, results, log, saved, ranking,
          disk, call>>

(***************************************************************************)
(* Bounds                                                                  *)
(***************************************************************************)
MaxLen == 3

MaxRuns == 3

Vocab == {"a", "bc"}

\* the characters of each word of the vocabulary
WordChars(w) == IF w = "a" THEN <<"a">> ELSE <<"b", "c">>

RECURSIVE SeqsUpTo(_, _)
SeqsUpTo(S, n) ==
  IF n = 0 THEN {<<>>}
  ELSE LET shorter == SeqsUpTo(S, n - 1)
       IN shorter \cup {Append(s, x) : s \in {t \in shorter : Len(t) = n - 1}, x \in S}

Texts == SeqsUpTo(Vocab, MaxLen)

Moves == {"diag", "del", "ins"}

\* every fixed preference order among the three backtrack moves
TieOrders == {o \in [1..3 -> Moves] : \A m \in Moves : \E k \in 1..3 : o[k] = m}

(***************************************************************************)
(* Arithmetic helpers                                                      *)
(***************************************************************************)
Min2(a, b) == IF a <= b THEN a ELSE b

Min3(a, b, c) == Min2(a, Min2(b, c))

Max2(a, b) == IF a >= b THEN a ELSE b

\* round(n / d) to the nearest integer, ties to even (Python round), n >= 0, d > 0
RoundDiv(n, d) ==
  LET q == n \div d
      r == n % d
  IN IF 2 * r < d THEN q
     ELSE IF 2 * r > d THEN q + 1
     ELSE IF q % 2 = 0 THEN q ELSE q + 1

\* round(num / den * 100, 2) in hundredths of a percent
RoundPct(num, den) == RoundDiv(num * 10000, den)

(***************************************************************************)
(* Tokenisation                                                            *)
(***************************************************************************)
\* the characters of a text: its words joined by single spaces
RECURSIVE CharsOf(_)
CharsOf(words) ==
  IF words = <<>> THEN <<>>
  ELSE IF Len(words) = 1 THEN WordChars(words[1])
  ELSE WordChars(words[1]) \o <<" ">> \o CharsOf(Tail(words))

(***************************************************************************)
(* Sequence aligner: cost table and backtrack                              *)
(***************************************************************************)
\* row 0 of the cost table: cell (0, j) = j, stored at index j + 1
RECURSIVE FirstRow(_)
FirstRow(n) == IF n = 0 THEN <<0>> ELSE Append(FirstRow(n - 1), n)

\* cells (i, 0..j) of row i, given row i - 1
RECURSIVE RowCells(_, _, _, _, _)
RowCells(prev, A, B, i, j) ==
  IF j = 0 THEN <<i>>
  ELSE LET left == RowCells(prev, A, B, i, j - 1)
           sub  == IF A[i] = B[j] THEN 0 ELSE 1
       IN Append(left, Min3(prev[j + 1] + 1, left[j] + 1, prev[j] + sub))

\* rows 0..i of the (|A|+1) x (|B|+1) cost table, row i stored at index i + 1
RECURSIVE CostRows(_, _, _)
CostRows(A, B, i) ==
  IF i = 0 THEN <<FirstRow(Len(B))>>
  ELSE LET above == CostRows(A, B, i - 1)
       IN Append(above, RowCells(above[i], A, B, i, Len(B)))

CostTable(A, B) == CostRows(A, B, Len(A))

Cell(T, i, j) == T[i + 1][j + 1]

\* the edit distance is the last cell of the table
Distance(A, B) == Cell(CostTable(A, B), Len(A), Len(B))

\* is the move a minimum-cost predecessor of cell (i, j)?
MoveAllowed(T, A, B, i, j, m) ==
  IF m = "diag"
  THEN i > 0 /\ j > 0
       /\ Cell(T, i, j) = Cell(T, i - 1, j - 1) + (IF A[i] = B[j] THEN 0 ELSE 1)
  ELSE IF m = "del"
  THEN i > 0 /\ Cell(T, i, j) = Cell(T, i - 1, j) + 1
  ELSE j > 0 /\ Cell(T, i, j) = Cell(T, i, j - 1) + 1

\* the first allowed move in the preference order
ChooseMove(T, A, B, i, j, order) ==
  IF MoveAllowed(T, A, B, i, j, order[1]) THEN order[1]
  ELSE IF MoveAllowed(T, A, B, i, j, order[2]) THEN order[2]
  ELSE order[3]

ZeroCounts == [hits |-> 0, substitutions |-> 0, deletions |-> 0, insertions |-> 0]

\* backtrack from (i, j) to (0, 0), accumulating the four counts
RECURSIVE Backtrack(_, _, _, _, _, _)
Backtrack(T, A, B, i, j, order) ==
  IF i = 0 /\ j = 0 THEN ZeroCounts
  ELSE LET m == ChooseMove(T, A, B, i, j, order)
       IN IF m = "diag"
          THEN LET r == Backtrack(T, A, B, i - 1, j - 1, order)
               IN IF A[i] = B[j]
                  THEN [r EXCEPT !.hits = @ + 1]
                  ELSE [r EXCEPT !.substitutions = @ + 1]
          ELSE IF m = "del"
          THEN LET r == Backtrack(T, A, B, i - 1, j, order)
               IN [r EXCEPT !.deletions = @ + 1]
          ELSE LET r == Backtrack(T, A, B, i, j - 1, order)
               IN [r EXCEPT !.insertions = @ + 1]

\* align(reference, hypothesis): the counts of a minimum-cost alignment
Align(A, B, order) == Backtrack(CostTable(A, B), A, B, Len(A), Len(B), order)

(***************************************************************************)
(* Metric calculators                                                      *)
(***************************************************************************)
Raised(e) == [status |-> "raised", error |-> e]

NoMetrics == [status |-> "none"]

\* the record built by calculate_benchmarks.calculate_metrics with the
\* insertion and deletion counts exchanged
BenchmarkRecordSwapped(output, cerrs, cn) ==
  LET errs == output.substitutions + output.deletions + output.insertions
      n    == output.hits + output.substitutions + output.deletions
  IN [status        |-> "ok",
      wer           |-> RoundPct(errs, n),
      cer           |-> RoundPct(cerrs, cn),
      word_accuracy |-> RoundPct(Max2(0, n - errs), n),
      insertions    |-> output.deletions,
      deletions     |-> output.insertions,
      substitutions |-> output.substitutions,
      hits          |-> output.hits]

\* the same record with the word accuracy taken as the WER itself
BenchmarkRecordAccuracyIsWer(output, cerrs, cn) ==
  LET errs == output.substitutions + output.deletions + output.insertions
      n    == output.hits + output.substitutions + output.deletions
  IN [status        |-> "ok",
      wer           |-> RoundPct(errs, n),
      cer           |-> RoundPct(cerrs, cn),
      word_accuracy |-> RoundPct(errs, n),
      insertions    |-> output.insertions,
      deletions     |-> output.deletions,
      substitutions |-> output.substitutions,
      hits          |-> output.hits]

\* calculate_benchmarks.calculate_metrics, the returned dict: WER, CER and
\* word accuracy = max(0, 1 - wer) * 100 as percentages rounded to 2 decimals
BenchmarkRecord(output, cerrs, cn) ==
  LET errs == output.substitutions + output.deletions + output.insertions
      n    == output.hits + output.substitutions + output.deletions
  IN [status        |-> "ok",
      wer           |-> RoundPct(errs, n),
      cer           |-> RoundPct(cerrs, cn),
      word_accuracy |-> RoundPct(Max2(0, n - errs), n),
      insertions    |-> output.insertions,
      deletions     |-> output.deletions,
      substitutions |-> output.substitutions,
      hits          |-> output.hits]

\* calculate_benchmarks.calculate_metrics
BenchmarkMetrics(ref, hyp, order) ==
  IF ref = <<>> THEN Raised("ValueError")  \* jiwer rejects an empty reference
  ELSE BenchmarkRecord(Align(ref, hyp, order),
                       Distance(CharsOf(ref), CharsOf(hyp)),
                       Len(CharsOf(ref)))

\* the record built by evaluate_transcripts.calculate_metrics with the hit
\* count reported as substitutions and the substitutions as hits
EvaluateRecordHitsAsSubs(measures, cerrs, cn, nref, nhyp) ==
  LET errs == measures.substitutions + measures.deletions + measures.insertions
      n    == measures.hits + measures.substitutions + measures.deletions
  IN [status           |-> "ok",
      wer              |-> [num |-> errs, den |-> n],
      cer              |-> [num |-> cerrs, den |-> cn],
      word_accuracy    |-> [num |-> n - errs, den |-> n],
      substitutions    |-> measures.hits,
      deletions        |-> measures.deletions,
      insertions       |-> measures.insertions,
      hits             |-> measures.substitutions,
      reference_words  |-> nref,
      hypothesis_words |-> nhyp]

\* the same record with a WER that leaves the deletions out
EvaluateRecordWerNoDeletions(measures, cerrs, cn, nref, nhyp) ==
  LET errs == measures.substitutions + measures.insertions
      n    == measures.hits + measures.substitutions + measures.deletions
  IN [status           |-> "ok",
      wer              |-> [num |-> errs, den |-> n],
      cer              |-> [num |-> cerrs, den |-> cn],
      word_accuracy    |-> [num |-> n - errs, den |-> n],
      substitutions    |-> measures.substitutions,
      deletions        |-> measures.deletions,
      insertions       |-> measures.insertions,
      hits             |-> measures.hits,
      reference_words  |-> nref,
      hypothesis_words |-> nhyp]

\* evaluate_transcripts.calculate_metrics, the returned dict: unrounded
\* ratios, word accuracy 1 - wer (the werpy_wer entry, a second library's
\* WER, is not modelled)
EvaluateRecord(measures, cerrs, cn, nref, nhyp) ==
  LET errs == measures.substitutions + measures.deletions + measures.insertions
      n    == measures.hits + measures.substitutions + measures.deletions
  IN [status           |-> "ok",
      wer              |-> [num |-> errs, den |-> n],
      cer              |-> [num |-> cerrs, den |-> cn],
      word_accuracy    |-> [num |-> n - errs, den |-> n],
      substitutions    |-> measures.substitutions,
      deletions        |-> measures.deletions,
      insertions       |-> measures.insertions,
      hits             |-> measures.hits,
      reference_words  |-> nref,
      hypothesis_words |-> nhyp]

\* evaluate_transcripts.calculate_metrics
EvaluateMetrics(ref, hyp, order) ==
  IF ref = <<>> THEN Raised("ValueError")  \* jiwer rejects an empty reference
  ELSE EvaluateRecord(Align(ref, hyp, order),
                      Distance(CharsOf(ref), CharsOf(hyp)),
                      Len(CharsOf(ref)), Len(ref), Len(hyp))

(***************************************************************************)
(* Specification of the metric calculators on bounded inputs               *)
(***************************************************************************)
\* no transcription runner is at work
RunnerIdle ==
  /\ disk = [status |-> "none"]
  /\ call = [status |-> "none"]

BatchIdle ==
  /\ script = "none"
  /\ config = <<>>
  /\ idx = 0
  /\ results = <<>>
  /\ log = <<>>
  /\ saved = [status |-> "none"]
  /\ ranking = <<>>

Init ==
  /\ reference \in Texts
  /\ hypothesis \in Texts
  /\ tieOrder \in TieOrders
  /\ metrics = NoMetrics
  /\ pc = "start"
  /\ BatchIdle
  /\ RunnerIdle

CalcBenchmarks ==
  /\ pc = "start"
  /\ metrics' = BenchmarkMetrics(reference, hypothesis, tieOrder)
  /\ pc' = "benchmarks"
  /\ UNCHANGED <<disk, call, reference, hypothesis, tieOrder,
                 script, config, idx, results, log, saved, ranking>>

CalcEvaluate ==
  /\ pc = "start"
  /\ metrics' = EvaluateMetrics(reference, hypothesis, tieOrder)
  /\ pc' = "evaluate"
  /\ UNCHANGED <<disk, call, reference, hypothesis, tieOrder,
                 script, config, idx, results, log, saved, ranking>>

Next == CalcBenchmarks \/ CalcEvaluate

Spec == Init /\ [][Next]_vars

(***************************************************************************)
(* Ranking                                                                 *)
(***************************************************************************)
\* x < y for two ratios with positive denominators
RatioLess(x, y) == x.num * y.den < y.num * x.den

Front(s) == SubSeq(s, 1, Len(s) - 1)

Last(s) == s[Len(s)]

RECURSIVE Reverse(_)
Reverse(s) == IF s = <<>> THEN <<>> ELSE Append(Reverse(Tail(s)), Head(s))

\* a stable sort places each record after every earlier record that is not
\* strictly behind it in the sort order
RECURSIVE InsertByAccuracyDesc(_, _)
InsertByAccuracyDesc(s, rec) ==
  IF s = <<>> THEN <<rec>>
  ELSE IF rec.metrics.word_accuracy > Head(s).metrics.word_accuracy
       THEN <<rec>> \o s
       ELSE <<Head(s)>> \o InsertByAccuracyDesc(Tail(s), rec)

RECURSIVE InsertByAccuracyAsc(_, _)
InsertByAccuracyAsc(s, rec) ==
  IF s = <<>> THEN <<rec>>
  ELSE IF rec.metrics.word_accuracy < Head(s).metrics.word_accuracy
       THEN <<rec>> \o s
       ELSE <<Head(s)>> \o InsertByAccuracyAsc(Tail(s), rec)

RECURSIVE SortedByAccuracyAsc(_)
SortedByAccuracyAsc(rs) ==
  IF rs = <<>> THEN <<>>
  ELSE InsertByAccuracyAsc(SortedByAccuracyAsc(Front(rs)), Last(rs))

\* an ascending sort reversed: equal keys come out in reverse input order
SortedByAccuracyReversed(rs) == Reverse(SortedByAccuracyAsc(rs))

\* sorted(results, key=word_accuracy, reverse=True)
RECURSIVE SortedByAccuracy(_)
SortedByAccuracy(rs) ==
  IF rs = <<>> THEN <<>>
  ELSE InsertByAccuracyDesc(SortedByAccuracy(Front(rs)), Last(rs))

RECURSIVE InsertByWer(_, _)
InsertByWer(s, rec) ==
  IF s = <<>> THEN <<rec>>
  ELSE IF RatioLess(rec.metrics.wer, Head(s).metrics.wer)
       THEN <<rec>> \o s
       ELSE <<Head(s)>> \o InsertByWer(Tail(s), rec)

\* the results left in input order
SortedByWerUnsorted(rs) == rs

\* sorted(results, key=wer)
RECURSIVE SortedByWer(_)
SortedByWer(rs) ==
  IF rs = <<>> THEN <<>>
  ELSE InsertByWer(SortedByWer(Front(rs)), Last(rs))

(***************************************************************************)
(* Batch evaluation: calculate_benchmarks.main and evaluate_all_runs       *)
(***************************************************************************)
\* the runs of runs-config.json: run ids in file order and completion flags
Configs ==
  UNION {[1..n -> [run_id : 1..MaxRuns, completed : BOOLEAN]] : n \in 0..MaxRuns}

ValidConfig(c) == \A k \in 1..Len(c) : c[k].run_id = k

\* ground-truth texts and transcripts read by the batch scripts
BatchRefs == {<<>>, <<"a", "bc">>}

BatchHyps == {<<>>, <<"a">>, <<"a", "bc">>, <<"bc", "a">>}

Report(run, outcome) == [run_id |-> run.run_id, outcome |-> outcome]

InitBatch ==
  /\ script \in {"benchmarks", "evaluate"}
  /\ reference \in BatchRefs
  /\ tieOrder \in TieOrders
  /\ config \in {c \in Configs : ValidConfig(c)}
  /\ idx = 1
  /\ results = <<>>
  /\ log = <<>>
  /\ saved = [status |-> "none"]
  /\ ranking = <<>>
  /\ pc = "loop"
  /\ hypothesis = <<>>
  /\ metrics = NoMetrics
  /\ RunnerIdle

InLoop(s) == pc = "loop" /\ script = s /\ idx <= Len(config)

\* the loop moves on to the next run, with or without a new result
Continue(outcome, newResults) ==
  /\ log' = Append(log, Report(config[idx], outcome))
  /\ results' = newResults
  /\ idx' = idx + 1
  /\ UNCHANGED <<disk, call, reference, hypothesis, tieOrder, metrics, pc,
                 script, config, saved, ranking>>

\* an exception leaves the loop and the script
Abort ==
  /\ pc' = "aborted"
  /\ UNCHANGED <<disk, call, reference, hypothesis, tieOrder, metrics,
                 script, config, idx, results, log, saved, ranking>>

\* calculate_benchmarks.main: run not completed
BenchSkipIncomplete ==
  /\ InLoop("benchmarks")
  /\ ~config[idx].completed
  /\ Continue("not_completed", results)

\* calculate_benchmarks.main: run directory not found
BenchSkipNoDir ==
  /\ InLoop("benchmarks")
  /\ config[idx].completed
  /\ Continue("no_dir", results)

\* calculate_benchmarks.main: find_transcript_file or load_text raises
BenchTranscriptError ==
  /\ InLoop("benchmarks")
  /\ config[idx].completed
  /\ Continue("error", results)

\* calculate_benchmarks.main: the transcript is read and the metrics computed
BenchEvaluate ==
  /\ InLoop("benchmarks")
  /\ config[idx].completed
  /\ \E hyp \in BatchHyps :
       LET m == BenchmarkMetrics(reference, hyp, tieOrder)
       IN IF m.status = "raised"
          THEN Continue("error", results)
          ELSE Continue("evaluated",
                        Append(results, [run_id |-> config[idx].run_id,
                                         metrics |-> m]))

\* the save of calculate_benchmarks.main counting every run of the config
BenchFinishCountsConfig ==
  /\ pc = "loop"
  /\ script = "benchmarks"
  /\ idx > Len(config)
  /\ saved' = [status |-> "saved",
               total_runs_evaluated |-> Len(config),
               results |-> results]
  /\ ranking' = SortedByAccuracy(results)
  /\ pc' = "done"
  /\ UNCHANGED <<disk, call, reference, hypothesis, tieOrder, metrics,
                 script, config, idx, results, log>>

\* calculate_benchmarks.main after the loop: save, then rank by accuracy
BenchFinish ==
  /\ pc = "loop"
  /\ script = "benchmarks"
  /\ idx > Len(config)
  /\ saved' = [status |-> "saved",
               total_runs_evaluated |-> Len(results),
               results |-> results]
  /\ ranking' = SortedByAccuracy(results)
  /\ pc' = "done"
  /\ UNCHANGED <<disk, call, reference, hypothesis, tieOrder, metrics,
                 script, config, idx, results, log>>

\* evaluate_all_runs: run not completed
EvalSkipIncomplete ==
  /\ InLoop("evaluate")
  /\ ~config[idx].completed
  /\ Continue("not_completed", results)

\* evaluate_all_runs: load_transcript returns None
EvalSkipNoTranscript ==
  /\ InLoop("evaluate")
  /\ config[idx].completed
  /\ Continue("no_transcript", results)

\* evaluate_all_runs: reading the transcript raises
EvalTranscriptError ==
  /\ InLoop("evaluate")
  /\ config[idx].completed
  /\ Abort

\* evaluate_all_runs: the transcript is read, the metrics computed and the
\* metadata file, when there is one, parsed (processing_time_seconds 12)
EvalEvaluate ==
  /\ InLoop("evaluate")
  /\ config[idx].completed
  /\ \E hyp \in BatchHyps, metadata \in {"absent", "present", "malformed"} :
       LET m == EvaluateMetrics(reference, hyp, tieOrder)
       IN IF m.status = "raised" \/ metadata = "malformed"
          THEN Abort
          ELSE Continue("evaluated",
                        Append(results,
                               [run_id |-> config[idx].run_id,
                                processing_time |->
                                  IF metadata = "present" THEN 12 ELSE 0,
                                metrics |-> m]))

\* evaluate_all_runs after the loop: save, then generate_summary_report
EvalFinish ==
  /\ pc = "loop"
  /\ script = "evaluate"
  /\ idx > Len(config)
  /\ saved' = [status |-> "saved", results |-> results]
  /\ ranking' = SortedByWer(results)
  /\ pc' = "done"
  /\ UNCHANGED <<disk, call, reference, hypothesis, tieOrder, metrics,
                 script, config, idx, results, log>>

NextBatch ==
  \/ BenchSkipIncomplete
  \/ BenchSkipNoDir
  \/ BenchTranscriptError
  \/ BenchEvaluate
  \/ BenchFinish
  \/ EvalSkipIncomplete
  \/ EvalSkipNoTranscript
  \/ EvalTranscriptError
  \/ EvalEvaluate
  \/ EvalFinish

SpecBatch == InitBatch /\ [][NextBatch]_vars

(***************************************************************************)
(* Properties of the alignment and of the metric records                   *)
(***************************************************************************)
Errors(m) == m.substitutions + m.deletions + m.insertions

\* the classic recursive definition of the unit-cost edit distance
RECURSIVE Lev(_, _)
Lev(A, B) ==
  IF A = <<>> THEN Len(B)
  ELSE IF B = <<>> THEN Len(A)
  ELSE IF Head(A) = Head(B) THEN Lev(Tail(A), Tail(B))
  ELSE 1 + Min3(Lev(Tail(A), B), Lev(A, Tail(B)), Lev(Tail(A), Tail(B)))

\* B is A with some tokens removed, the others kept in order
RECURSIVE IsSubseq(_, _)
IsSubseq(B, A) ==
  IF B = <<>> THEN TRUE
  ELSE IF A = <<>> THEN FALSE
  ELSE IF Head(A) = Head(B) THEN IsSubseq(Tail(B), Tail(A))
  ELSE IsSubseq(B, Tail(A))

Conserved(m, A, B) ==
  /\ m.hits + m.substitutions + m.deletions = Len(A)
  /\ m.hits + m.substitutions + m.insertions = Len(B)

\* C1: the counts of the alignment of any reference with any hypothesis
\* (empty ones included), and the counts of every metric record returned,
\* satisfy hits + substitutions + deletions = len(reference) and
\* hits + substitutions + insertions = len(hypothesis).
C1_Conservation ==
  /\ Conserved(Align(reference, hypothesis, tieOrder), reference, hypothesis)
  /\ metrics.status = "ok" => Conserved(metrics, reference, hypothesis)

C1_Witness ==
  /\ pc = "benchmarks"
  /\ metrics.status = "ok"
  /\ metrics.insertions > 0
  /\ metrics.substitutions > 0
  /\ metrics.hits > 0

\* C2: the alignment cost substitutions + insertions + deletions equals the
\* unit-cost Levenshtein distance of the two token sequences, computed by
\* the independent recursive definition Lev.
C2_CostIsEditDistance ==
  /\ Errors(Align(reference, hypothesis, tieOrder)) = Lev(reference, hypothesis)
  /\ metrics.status = "ok" => Errors(metrics) = Lev(reference, hypothesis)

C2_Witness ==
  /\ pc = "benchmarks"
  /\ metrics.status = "ok"
  /\ Errors(metrics) = 2
  /\ metrics.deletions = 1
  /\ Len(hypothesis) = 2

\* C3: aligning a sequence with itself gives hits = len, no substitution,
\* insertion or deletion; the record of a non-empty text compared with
\* itself has WER 0 and, in calculate_benchmarks, word accuracy 100.
C3_SelfAlignment ==
  hypothesis = reference =>
    /\ Align(reference, hypothesis, tieOrder)
         = [ZeroCounts EXCEPT !.hits = Len(reference)]
    /\ (pc = "benchmarks" /\ reference # <<>>) =>
         /\ metrics.status = "ok"
         /\ metrics.hits = Len(reference)
         /\ Errors(metrics) = 0
         /\ metrics.wer = 0
         /\ metrics.word_accuracy = 10000
    /\ (pc = "evaluate" /\ reference # <<>>) =>
         /\ metrics.status = "ok"
         /\ metrics.hits = Len(reference)
         /\ Errors(metrics) = 0
         /\ metrics.wer.num = 0

C3_Witness ==
  /\ pc = "benchmarks"
  /\ hypothesis = reference
  /\ Len(reference) = MaxLen
  /\ metrics.status = "ok"
  /\ metrics.word_accuracy = 10000

\* C4: for a non-empty reference and a hypothesis that is the reference with
\* k tokens removed, deletions = k, substitutions = insertions = 0,
\* hits = len(reference) - k and WER = k / len(reference).
C4_PureDeletions ==
  (pc # "start" /\ reference # <<>> /\ IsSubseq(hypothesis, reference)) =>
    LET k == Len(reference) - Len(hypothesis)
    IN /\ metrics.status = "ok"
       /\ metrics.deletions = k
       /\ metrics.substitutions = 0
       /\ metrics.insertions = 0
       /\ metrics.hits = Len(reference) - k
       /\ pc = "benchmarks" => metrics.wer = RoundPct(k, Len(reference))
       /\ pc = "evaluate" => metrics.wer = [num |-> k, den |-> Len(reference)]

C4_Witness ==
  /\ pc = "benchmarks"
  /\ reference = <<"a", "bc", "a">>
  /\ hypothesis = <<"a", "a">>
  /\ metrics.status = "ok"
  /\ metrics.deletions = 1
  /\ metrics.wer = 3333

\* C5: in every metric record of either calculate_metrics, word_accuracy is
\* max(0, 1 - wer) on the record's scale: zero whenever WER exceeds 100%,
\* and never negative.
C5_AccuracyClamped ==
  metrics.status = "ok" =>
    LET n    == metrics.hits + metrics.substitutions + metrics.deletions
        errs == Errors(metrics)
    IN /\ pc = "benchmarks" =>
            metrics.word_accuracy = RoundPct(Max2(0, n - errs), n)
       /\ pc = "evaluate" =>
            metrics.word_accuracy = [num |-> Max2(0, n - errs), den |-> n]

\* C6: with an empty reference the metric calculation returns a flagged
\* (undefined metric) result instead of failing.
C6_EmptyReferenceFlagged ==
  (pc # "start" /\ reference = <<>>) => metrics.status = "flagged"

\* C7: with an empty reference and an empty hypothesis the record reports
\* WER = CER = 0 and hits = substitutions = insertions = deletions = 0.
C7_BothEmptyZero ==
  (pc # "start" /\ reference = <<>> /\ hypothesis = <<>>) =>
    /\ metrics.status # "raised"
    /\ metrics.hits = 0
    /\ Errors(metrics) = 0
    /\ IF pc = "benchmarks"
       THEN metrics.wer = 0 /\ metrics.cer = 0
       ELSE metrics.wer.num = 0 /\ metrics.cer.num = 0

\* C8: with an empty reference and a hypothesis of n > 0 tokens the result
\* reports insertions = n and hits = substitutions = deletions = 0, and no
\* exception is raised.
C8_EmptyReferenceInsertions ==
  (pc # "start" /\ reference = <<>> /\ hypothesis # <<>>) =>
    /\ metrics.status # "raised"
    /\ metrics.insertions = Len(hypothesis)
    /\ metrics.hits = 0
    /\ metrics.substitutions = 0
    /\ metrics.deletions = 0

(***************************************************************************)
(* Properties of the batch loops and of the rankings                       *)
(***************************************************************************)
\* C9: a run whose evaluation fails never aborts the batch: every run of the
\* config is processed and reported individually, and the results are saved
\* and ranked.
C9_FailureIsolated ==
  /\ pc # "aborted"
  /\ pc = "done" => (Len(log) = Len(config) /\ saved.status = "saved")

PositionIn(s, rec) == CHOOSE k \in 1..Len(s) : s[k] = rec

SameKey(x, y) ==
  IF script = "benchmarks"
  THEN x.metrics.word_accuracy = y.metrics.word_accuracy
  ELSE ~RatioLess(x.metrics.wer, y.metrics.wer)
       /\ ~RatioLess(y.metrics.wer, x.metrics.wer)

ExtractMarks == <<".", "!", "?", ",", ";", ":", "-", "emdash">>

\* punctuation_marks of count_punctuation, in list order
CountMarks == <<".", "!", "?", ",", ";", ":", "-", "emdash", "\"", "'">>

Range(s) == {s[k] : k \in DOMAIN s}

\* str.isalnum of one character
IsAlnum(c) == c \in {"a", "b", "A"}

\* str.lower of one character
LowerChar(c) == IF c = "A" THEN "a" ELSE c

Lower(s) == [k \in 1..Len(s) |-> LowerChar(s[k])]

\* ' '.join(tokens)
RECURSIVE JoinTokens(_)
JoinTokens(tokens) ==
  IF tokens = <<>> THEN <<>>
  ELSE IF Len(tokens) = 1 THEN tokens[1]
  ELSE tokens[1] \o <<" ">> \o JoinTokens(Tail(tokens))

\* str.strip(): leading and trailing spaces removed
RECURSIVE LStrip(_)
LStrip(s) == IF s # <<>> /\ Head(s) = " " THEN LStrip(Tail(s)) ELSE s

RECURSIVE RStrip(_)
RStrip(s) ==
  IF s # <<>> /\ s[Len(s)] = " " THEN RStrip(SubSeq(s, 1, Len(s) - 1)) ELSE s

Strip(s) == RStrip(LStrip(s))

\* a Python slice bound (0-based, negative values count from the end)
SliceBound(n, x) == IF x < 0 THEN Max2(0, n + x) ELSE Min2(x, n)

\* s[start:stop] of Python, start and stop 0-based
PySlice(s, start, stop) ==
  SubSeq(s, SliceBound(Len(s), start) + 1, SliceBound(Len(s), stop))

\* the characters of the word that are alphanumeric
WordClean(word) == SelectSeq(word, IsAlnum)

\* the context of the token at 0-based position i
ContextOf(words, i, context_words) ==
  LET context_before ==
        JoinTokens(PySlice(words, Max2(0, i - context_words), i))
      context_after ==
        JoinTokens(PySlice(words, i + 1,
                           Min2(Len(words), i + context_words + 1)))
      word_clean == WordClean(words[i + 1])
  IN Lower(Strip(context_before \o <<" ">> \o word_clean
                 \o <<" ">> \o context_after))

\* the pairs of the token at 0-based position i for the marks k.. of the list
RECURSIVE WordPairs(_, _, _, _)
WordPairs(words, i, context_words, k) ==
  IF k > Len(ExtractMarks) THEN <<>>
  ELSE (IF ExtractMarks[k] \in Range(words[i + 1])
        THEN <<<<ContextOf(words, i, context_words), ExtractMarks[k]>>>>
        ELSE <<>>)
       \o WordPairs(words, i, context_words, k + 1)

\* the pairs of the tokens at 0-based positions i..
RECURSIVE PairsFrom(_, _, _)
PairsFrom(words, i, context_words) ==
  IF i >= Len(words) THEN <<>>
  ELSE WordPairs(words, i, context_words, 1)
       \o PairsFrom(words, i + 1, context_words)

\* extract_punctuation_context(text, context_words)
extract_punctuation_context(words, context_words) ==
  PairsFrom(words, 0, context_words)

\* the characters of the whole text that are marks of the counting list
RECURSIVE TextMarks(_)
TextMarks(words) ==
  IF words = <<>> THEN <<>>
  ELSE SelectSeq(Head(words), LAMBDA c : c \in Range(CountMarks))
       \o TextMarks(Tail(words))

CountOf(s, x) == Cardinality({k \in DOMAIN s : s[k] = x})

\* count_punctuation(text): a count for every mark that occurs
count_punctuation(words) ==
  LET found == TextMarks(words)
  IN [mark \in Range(found) |-> CountOf(found, mark)]

\* dict.get(mark, 0)
GetCount(counts, mark) == IF mark \in DOMAIN counts THEN counts[mark] ELSE 0

\* sum(counts.values())
RECURSIVE SumCounts(_)
SumCounts(counts) ==
  IF DOMAIN counts = {} THEN 0
  ELSE LET mark == CHOOSE m \in DOMAIN counts : TRUE
       IN counts[mark]
          + SumCounts([m \in DOMAIN counts \ {mark} |-> counts[m]])

RECURSIVE GCD(_, _)
GCD(a, b) == IF b = 0 THEN a ELSE GCD(b, a % b)

\* exact arithmetic on ratios [num, den] with den > 0, kept in lowest terms
Ratio(n, d) ==
  LET g == GCD(IF n < 0 THEN -n ELSE n, d)
  IN [num |-> n \div g, den |-> d \div g]

RatioAdd(x, y) == Ratio(x.num * y.den + y.num * x.den, x.den * y.den)

RatioSub(x, y) == Ratio(x.num * y.den - y.num * x.den, x.den * y.den)

RatioMul(x, y) == Ratio(x.num * y.num, x.den * y.den)

\* x / y for y > 0
RatioDiv(x, y) == Ratio(x.num * y.den, x.den * y.num)

RatioAbs(x) == Ratio(IF x.num < 0 THEN -x.num ELSE x.num, x.den)

RatioMax(x, y) == IF RatioLess(x, y) THEN y ELSE x

\* round(x, 2) in hundredths
Round2(x) == RoundDiv(x.num * 100, x.den)

\* the marks found at one context, in order of extraction
RECURSIVE MarksAt(_, _)
MarksAt(pairs, context) ==
  IF pairs = <<>> THEN <<>>
  ELSE (IF Head(pairs)[1] = context THEN <<Head(pairs)[2]>> ELSE <<>>)
       \o MarksAt(Tail(pairs), context)

\* the lookup dictionary: context -> list of marks
ContextDict(pairs) ==
  [context \in {pairs[k][1] : k \in DOMAIN pairs} |-> MarksAt(pairs, context)]

\* the reference contexts that are also hypothesis contexts, whatever marks
MatchedContextsKeyOnly(ref_dict, hyp_dict) ==
  {context \in DOMAIN ref_dict : context \in DOMAIN hyp_dict}

\* the reference contexts found with the same list of marks in the hypothesis
MatchedContexts(ref_dict, hyp_dict) ==
  {context \in DOMAIN ref_dict :
     context \in DOMAIN hyp_dict /\ ref_dict[context] = hyp_dict[context]}

\* context_accuracy, unrounded
ContextAccuracy(ref_dict, hyp_dict) ==
  LET matched_contexts == Cardinality(MatchedContexts(ref_dict, hyp_dict))
      total_contexts   == Cardinality(DOMAIN ref_dict)
  IN IF total_contexts > 0
     THEN Ratio(matched_contexts * 100, total_contexts)
     ELSE Ratio(0, 1)

\* the per-mark accuracy of the counts without the floor at zero
CountAccuracyUnclamped(ref_count, hyp_count) ==
  IF ref_count = 0
  THEN (IF hyp_count = 0 THEN Ratio(100, 1) ELSE Ratio(0, 1))
  ELSE RatioSub(Ratio(100, 1),
                Ratio((IF ref_count >= hyp_count
                       THEN ref_count - hyp_count
                       ELSE hyp_count - ref_count) * 100,
                      ref_count))

\* the per-mark accuracy of the counts, unrounded
CountAccuracy(ref_count, hyp_count) ==
  IF ref_count = 0
  THEN (IF hyp_count = 0 THEN Ratio(100, 1) ELSE Ratio(0, 1))
  ELSE RatioMax(Ratio(0, 1),
                RatioSub(Ratio(100, 1),
                         Ratio((IF ref_count >= hyp_count
                                THEN ref_count - hyp_count
                                ELSE hyp_count - ref_count) * 100,
                               ref_count)))

\* mark_accuracy: one entry for every mark counted in either text
MarkAccuracy(ref_counts, hyp_counts) ==
  [mark \in DOMAIN ref_counts \cup DOMAIN hyp_counts |->
     [reference_count  |-> GetCount(ref_counts, mark),
      hypothesis_count |-> GetCount(hyp_counts, mark),
      count_accuracy   |-> Round2(CountAccuracy(GetCount(ref_counts, mark),
                                                GetCount(hyp_counts, mark)))]]

\* punctuation marks per 100 words, 0 for a text without words
Density(total_punct, words) ==
  IF words > 0 THEN Ratio(total_punct * 100, words) ELSE Ratio(0, 1)

\* context_accuracy * 0.7 + (100 - |ref - hyp| / max(ref, 0.01) * 100) * 0.3
OverallScore(context_accuracy, ref_density, hyp_density) ==
  RatioAdd(
    RatioMul(context_accuracy, Ratio(7, 10)),
    RatioMul(
      RatioSub(Ratio(100, 1),
               RatioMul(RatioDiv(RatioAbs(RatioSub(ref_density, hyp_density)),
                                 RatioMax(ref_density, Ratio(1, 100))),
                        Ratio(100, 1))),
      Ratio(3, 10)))

\* calculate_punctuation_metrics(reference, hypothesis)
calculate_punctuation_metrics(ref, hyp) ==
  LET ref_counts == count_punctuation(ref)
      hyp_counts == count_punctuation(hyp)
      total_ref_punct == SumCounts(ref_counts)
      total_hyp_punct == SumCounts(hyp_counts)
      ref_dict == ContextDict(extract_punctuation_context(ref, 2))
      hyp_dict == ContextDict(extract_punctuation_context(hyp, 2))
      context_accuracy == ContextAccuracy(ref_dict, hyp_dict)
      ref_density == Density(total_ref_punct, Len(ref))
      hyp_density == Density(total_hyp_punct, Len(hyp))
  IN [status |-> "ok",
      total_punctuation |->
        [reference  |-> total_ref_punct,
         hypothesis |-> total_hyp_punct,
         difference |-> total_hyp_punct - total_ref_punct],
      punctuation_density |->
        [reference_percent  |-> Round2(ref_density),
         hypothesis_percent |-> Round2(hyp_density)],
      mark_accuracy |-> MarkAccuracy(ref_counts, hyp_counts),
      context_match_accuracy |-> Round2(context_accuracy),
      overall_punctuation_score |->
        Round2(OverallScore(context_accuracy, ref_density, hyp_density))]

(***************************************************************************)
(* Specifications of the punctuation functions on bounded inputs           *)
(***************************************************************************)
MaxTokens == 3

MaxPairTokens == 2

\* tokens: a plain word, a capitalised word with a comma, a word with an
\* ellipsis, a word with two different marks, a lone hyphen, a word with
\* an apostrophe
PunctVocab ==
  {<<"a">>, <<"A", ",">>, <<"b", ".", ".">>, <<"a", ",", ".">>, <<"-">>,
   <<"a", "'", "b">>}

\* context window sizes passed to extract_punctuation_context
ContextWindows == -2..2

InitExtract ==
  /\ reference \in SeqsUpTo(PunctVocab, MaxTokens)
  /\ hypothesis = <<>>
  /\ tieOrder = <<"diag", "del", "ins">>
  /\ metrics = NoMetrics
  /\ pc = "start"
  /\ BatchIdle
  /\ RunnerIdle

\* one call of extract_punctuation_context(reference, context_words)
Extract ==
  /\ pc = "start"
  /\ \E context_words \in ContextWindows :
       metrics' = [status        |-> "ok",
                   context_words |-> context_words,
                   contexts      |->
                     extract_punctuation_context(reference, context_words)]
  /\ pc' = "extracted"
  /\ UNCHANGED <<disk, call, reference, hypothesis, tieOrder,
                 script, config, idx, results, log, saved, ranking>>

\* one call of count_punctuation(reference)
Count ==
  /\ pc = "start"
  /\ metrics' = [status |-> "ok", counts |-> count_punctuation(reference)]
  /\ pc' = "counted"
  /\ UNCHANGED <<disk, call, reference, hypothesis, tieOrder,
                 script, config, idx, results, log, saved, ranking>>

NextExtract == Extract \/ Count

SpecExtract == InitExtract /\ [][NextExtract]_vars

InitPunct ==
  /\ reference \in SeqsUpTo(PunctVocab, MaxPairTokens)
  /\ hypothesis \in SeqsUpTo(PunctVocab, MaxPairTokens)
  /\ tieOrder = <<"diag", "del", "ins">>
  /\ metrics = NoMetrics
  /\ pc = "start"
  /\ BatchIdle
  /\ RunnerIdle

\* one call of calculate_punctuation_metrics(reference, hypothesis)
CalcPunctuation ==
  /\ pc = "start"
  /\ metrics' = calculate_punctuation_metrics(reference, hypothesis)
  /\ pc' = "punctuation"
  /\ UNCHANGED <<disk, call, reference, hypothesis, tieOrder,
                 script, config, idx, results, log, saved, ranking>>

NextPunct == CalcPunctuation

SpecPunct == InitPunct /\ [][NextPunct]_vars

(***************************************************************************)
(* Properties of the punctuation functions                                 *)
(***************************************************************************)
\* two lists of marks are equal element by element
SameList(x, y) == Len(x) = Len(y) /\ \A k \in 1..Len(x) : x[k] = y[k]

RefDict == ContextDict(extract_punctuation_context(reference, 2))

HypDict == ContextDict(extract_punctuation_context(hypothesis, 2))

\* C13: a reference context is matched iff the hypothesis has the same
\* context with an element-wise equal list of marks; context_match_accuracy
\* is matched / total reference contexts * 100 (2 decimals), 0 without
\* reference contexts; matched never exceeds the total, and hypothesis-only
\* contexts do not count.
C13_ContextMatching ==
  pc = "punctuation" =>
    LET matched == {c \in DOMAIN RefDict :
                      c \in DOMAIN HypDict /\ SameList(RefDict[c], HypDict[c])}
        total   == Cardinality(DOMAIN RefDict)
    IN /\ Cardinality(matched) <= total
       /\ metrics.context_match_accuracy <= 10000
       /\ metrics.context_match_accuracy =
            IF total = 0 THEN 0 ELSE RoundDiv(Cardinality(matched) * 10000, total)

\* a shared context with different marks, and a context of the hypothesis only
C13_Witness ==
  /\ pc = "punctuation"
  /\ \E c \in DOMAIN RefDict \cap DOMAIN HypDict : RefDict[c] # HypDict[c]
  /\ DOMAIN HypDict \ DOMAIN RefDict # {}
  /\ Cardinality(DOMAIN RefDict) = 2
  /\ metrics.context_match_accuracy = 0

\* the number of occurrences of a character in the tokens of a text
RECURSIVE Occurrences(_, _)
Occurrences(words, c) ==
  IF words = <<>> THEN 0
  ELSE CountOf(Head(words), c) + Occurrences(Tail(words), c)

PairsWithMark(pairs, mark) == Cardinality({k \in DOMAIN pairs : pairs[k][2] = mark})

\* C14: context extraction (window size >= 0) emits one pair per mark
\* instance: as many pairs carry a mark as the mark has occurrences in the
\* tokens of the text.
C14_PairPerInstance ==
  (pc = "extracted" /\ metrics.context_words >= 0) =>
    \A mark \in Range(ExtractMarks) :
      PairsWithMark(metrics.contexts, mark) = Occurrences(reference, mark)

\* C15: counting and extraction use the same ten marks: every mark counted
\* by count_punctuation in the text appears in a context pair extracted
\* with a window size >= 0.
C15_SameAlphabet ==
  (pc = "extracted" /\ metrics.context_words >= 0) =>
    \A mark \in DOMAIN count_punctuation(reference) :
      PairsWithMark(metrics.contexts, mark) > 0

\* C16: every context string (window size >= 0) is lower-cased and joined
\* by single spaces: no leading or trailing space and no two spaces in a row.
C16_SingleSpaces ==
  (pc = "extracted" /\ metrics.context_words >= 0) =>
    \A k \in DOMAIN metrics.contexts :
      LET context == metrics.contexts[k][1]
      IN /\ context = Lower(context)
         /\ context # <<>> => (Head(context) # " " /\ context[Len(context)] # " ")
         /\ \A j \in 1..(Len(context) - 1) :
              ~(context[j] = " " /\ context[j + 1] = " ")

\* C17: mark_accuracy has an entry for every mark present in either text,
\* with count_accuracy 100 for equal counts, 0 for a reference count of 0,
\* otherwise max(0, 100 - |ref - hyp| / ref * 100) (2 decimals): 0 when the
\* hypothesis count is 0 or at least twice the reference count, and always
\* within [0, 100].
C17_CountAccuracy ==
  pc = "punctuation" =>
    /\ DOMAIN metrics.mark_accuracy =
         {mark \in Range(CountMarks) :
            Occurrences(reference, mark) + Occurrences(hypothesis, mark) > 0}
    /\ \A mark \in DOMAIN metrics.mark_accuracy :
         LET r    == Occurrences(reference, mark)
             h    == Occurrences(hypothesis, mark)
             diff == IF r >= h THEN r - h ELSE h - r
             acc  == metrics.mark_accuracy[mark].count_accuracy
         IN /\ metrics.mark_accuracy[mark].reference_count = r
            /\ metrics.mark_accuracy[mark].hypothesis_count = h
            /\ acc >= 0 /\ acc <= 10000
            /\ r = h => acc = 10000
            /\ (h = 0 \/ h >= 2 * r) => acc = 0
            /\ (r > 0 /\ diff < r) => acc = RoundDiv((r - diff) * 10000, r)

\* a mark counted more than twice as often in the hypothesis, another one
\* with an accuracy strictly between 0 and 100
C17_Witness ==
  /\ pc = "punctuation"
  /\ \E mark \in DOMAIN metrics.mark_accuracy :
       /\ metrics.mark_accuracy[mark].reference_count > 0
       /\ metrics.mark_accuracy[mark].hypothesis_count
            > 2 * metrics.mark_accuracy[mark].reference_count
       /\ metrics.mark_accuracy[mark].count_accuracy = 0
  /\ \E mark \in DOMAIN metrics.mark_accuracy :
       /\ metrics.mark_accuracy[mark].count_accuracy > 0
       /\ metrics.mark_accuracy[mark].count_accuracy < 10000

\* C18: the overall punctuation score lies in [0, 100] for every pair of
\* texts.
C18_ScoreClamped ==
  pc = "punctuation" =>
    /\ metrics.overall_punctuation_score >= 0
    /\ metrics.overall_punctuation_score <= 10000

\* C19: a text with at least one recognised mark compared with itself has
\* context_match_accuracy 100, count_accuracy 100 for every mark and
\* overall score 100.
C19_IdenticalTexts ==
  (pc = "punctuation" /\ hypothesis = reference
     /\ DOMAIN count_punctuation(reference) # {}) =>
    /\ metrics.context_match_accuracy = 10000
    /\ \A mark \in DOMAIN metrics.mark_accuracy :
         metrics.mark_accuracy[mark].count_accuracy = 10000
    /\ metrics.overall_punctuation_score = 10000

\* C20: a negative context window size is rejected with a configuration
\* error and no result is produced.
C20_NegativeWindowRejected ==
  (pc = "extracted" /\ metrics.context_words < 0) => metrics.status = "rejected"

(***************************************************************************)
(* Batch evaluation: calculate_punctuation_accuracy.main                   *)
(***************************************************************************)
RECURSIVE InsertByScoreDesc(_, _)
InsertByScoreDesc(s, rec) ==
  IF s = <<>> THEN <<rec>>
  ELSE IF rec.metrics.overall_punctuation_score
            > Head(s).metrics.overall_punctuation_score
       THEN <<rec>> \o s
       ELSE <<Head(s)>> \o InsertByScoreDesc(Tail(s), rec)

\* sorted(results, key=overall_punctuation_score, reverse=True)
RECURSIVE SortedByScore(_)
SortedByScore(rs) ==
  IF rs = <<>> THEN <<>>
  ELSE InsertByScoreDesc(SortedByScore(Front(rs)), Last(rs))

\* ground-truth text and transcripts read by the punctuation script
PunctBatchRefs == {<<<<"-">>, <<"A", ",">>>>}

PunctBatchHyps ==
  {<<>>, <<<<"-">>, <<"A", ",">>>>, <<<<"A", ",">>, <<"-">>>>,
   <<<<"a", ",", ".">>, <<"b", ".", ".">>>>}

\* calculate_punctuation_accuracy.main: run not completed
PunctSkipIncomplete ==
  /\ InLoop("punctuation")
  /\ ~config[idx].completed
  /\ Continue("not_completed", results)

\* calculate_punctuation_accuracy.main: run directory not found
PunctSkipNoDir ==
  /\ InLoop("punctuation")
  /\ config[idx].completed
  /\ Continue("no_dir", results)

\* calculate_punctuation_accuracy.main: find_transcript_file or load_text
\* raises
PunctTranscriptError ==
  /\ InLoop("punctuation")
  /\ config[idx].completed
  /\ Continue("error", results)

\* calculate_punctuation_accuracy.main: the transcript is read and the
\* punctuation metrics computed
PunctEvaluate ==
  /\ InLoop("punctuation")
  /\ config[idx].completed
  /\ \E hyp \in PunctBatchHyps :
       Continue("evaluated",
                Append(results,
                       [run_id  |-> config[idx].run_id,
                        metrics |-> calculate_punctuation_metrics(reference, hyp)]))

\* calculate_punctuation_accuracy.main after the loop: save, then rank
PunctFinish ==
  /\ pc = "loop"
  /\ script = "punctuation"
  /\ idx > Len(config)
  /\ saved' = [status |-> "saved",
               total_runs_evaluated |-> Len(results),
               results |-> results]
  /\ ranking' = SortedByScore(results)
  /\ pc' = "done"
  /\ UNCHANGED <<disk, call, reference, hypothesis, tieOrder, metrics,
                 script, config, idx, results, log>>

\* the three batch scripts
InitRanking ==
  /\ script \in {"benchmarks", "evaluate", "punctuation"}
  /\ reference \in (IF script = "punctuation" THEN PunctBatchRefs ELSE BatchRefs)
  /\ tieOrder \in TieOrders
  /\ config \in {c \in Configs : ValidConfig(c)}
  /\ idx = 1
  /\ results = <<>>
  /\ log = <<>>
  /\ saved = [status |-> "none"]
  /\ ranking = <<>>
  /\ pc = "loop"
  /\ hypothesis = <<>>
  /\ metrics = NoMetrics
  /\ RunnerIdle

NextRanking ==
  \/ NextBatch
  \/ PunctSkipIncomplete
  \/ PunctSkipNoDir
  \/ PunctTranscriptError
  \/ PunctEvaluate
  \/ PunctFinish

SpecRanking == InitRanking /\ [][NextRanking]_vars

\* is x ranked no later than y by the sort key of the script?
InOrder(x, y) ==
  IF script = "benchmarks"
  THEN x.metrics.word_accuracy >= y.metrics.word_accuracy
  ELSE IF script = "evaluate"
  THEN ~RatioLess(y.metrics.wer, x.metrics.wer)
  ELSE x.metrics.overall_punctuation_score >= y.metrics.overall_punctuation_score

\* C11: each ranking is a permutation of the results (no record dropped,
\* duplicated or altered) in which every adjacent pair is ordered by the
\* metric: word_accuracy non-increasing, WER non-decreasing, punctuation
\* score non-increasing.
C11_RankingSortedPermutation ==
  pc = "done" =>
    /\ Len(ranking) = Len(results)
    /\ \A k \in DOMAIN results :
         CountOf(ranking, results[k]) = CountOf(results, results[k])
    /\ \A k \in 1..(Len(ranking) - 1) : InOrder(ranking[k], ranking[k + 1])

\* three results ranked by WER in the reverse of their input order
C11_Witness ==
  /\ pc = "done"
  /\ script = "evaluate"
  /\ Len(results) = 3
  /\ ranking = <<results[3], results[2], results[1]>>
  /\ RatioLess(ranking[1].metrics.wer, ranking[2].metrics.wer)
  /\ RatioLess(ranking[2].metrics.wer, ranking[3].metrics.wer)

(***************************************************************************)
(* calculate_benchmarks.main on a long reference                           *)
(*                                                                         *)
(* Two word error rates differ by less than 0.01% only for a reference of  *)
(* more than 10000 words.  The reference is LongRefWords times the word    *)
(* "a" and every transcript is the reference without its last e words, so  *)
(* that the alignment is e deletions and the table need not be built.      *)
(***************************************************************************)
LongRefWords == 30000

MaxLongErrors == 3

LongReference == [k \in 1..LongRefWords |-> "a"]

InitPrecision ==
  /\ script = "benchmarks"
  /\ reference = LongReference
  /\ tieOrder = <<"diag", "del", "ins">>
  /\ config \in {c \in Configs : ValidConfig(c) /\ \A k \in 1..Len(c) : c[k].completed}
  /\ idx = 1
  /\ results = <<>>
  /\ log = <<>>
  /\ saved = [status |-> "none"]
  /\ ranking = <<>>
  /\ pc = "loop"
  /\ hypothesis = <<>>
  /\ metrics = NoMetrics
  /\ RunnerIdle

\* calculate_benchmarks.main: the metrics of a transcript that lacks the
\* last e words of the reference
BenchEvaluateLong ==
  /\ InLoop("benchmarks")
  /\ config[idx].completed
  /\ \E e \in 0..MaxLongErrors :
       LET output == [hits          |-> Len(reference) - e,
                      substitutions |-> 0,
                      deletions     |-> e,
                      insertions    |-> 0]
       IN Continue("evaluated",
                   Append(results,
                          [run_id  |-> config[idx].run_id,
                           metrics |-> BenchmarkRecord(output, 2 * e,
                                                       2 * Len(reference) - 1)]))

NextPrecision == BenchEvaluateLong \/ BenchFinish

SpecPrecision == InitPrecision /\ [][NextPrecision]_vars

\* errors and reference length of a record of calculate_benchmarks
UnroundedWer(m) ==
  [num |-> Errors(m), den |-> m.hits + m.substitutions + m.deletions]

\* C12: the ranking uses the unrounded metric: a run whose unrounded WER is
\* strictly lower than another run's (both below 100%) is ranked ahead of
\* it, whatever their input order and their values rounded to 2 decimals.
C12_RankedByFullPrecision ==
  (pc = "done" /\ script = "benchmarks") =>
    \A i, j \in 1..Len(ranking) :
      (/\ RatioLess(UnroundedWer(ranking[i].metrics), UnroundedWer(ranking[j].metrics))
       /\ RatioLess(UnroundedWer(ranking[j].metrics), [num |-> 1, den |-> 1]))
        => i < j

(***************************************************************************)
(* Properties of the evaluation loops                                      *)
(***************************************************************************)
\* the run ids of a sequence of records, in order
RECURSIVE RunIds(_)
RunIds(rs) == IF rs = <<>> THEN <<>> ELSE <<Head(rs).run_id>> \o RunIds(Tail(rs))

IsEvaluated(report) == report.outcome = "evaluated"

\* C22: after the loop of calculate_benchmarks.main and of
\* calculate_punctuation_accuracy.main every run of the config has been
\* visited once, results holds exactly one record for each run that is
\* completed, whose directory exists and whose evaluation raised no error,
\* in config order, a run that is not completed is never evaluated, and the
\* saved total_runs_evaluated is the number of records.
C22_ResultsAreEvaluatedRuns ==
  (pc = "done" /\ script \in {"benchmarks", "punctuation"}) =>
    /\ RunIds(log) = RunIds(config)
    /\ RunIds(results) = RunIds(SelectSeq(log, IsEvaluated))
    /\ \A k \in DOMAIN config :
         /\ log[k].outcome = "evaluated" => config[k].completed
         /\ ~config[k].completed => log[k].outcome = "not_completed"
    /\ saved.status = "saved"
    /\ saved.total_runs_evaluated = Len(results)
    /\ saved.results = results

\* three runs: one fails, one is not completed, the last one is evaluated
C22_Witness ==
  /\ pc = "done"
  /\ script = "benchmarks"
  /\ Len(config) = 3
  /\ log[1].outcome = "error"
  /\ log[2].outcome = "not_completed"
  /\ log[3].outcome = "evaluated"
  /\ RunIds(results) = <<3>>
  /\ saved.total_runs_evaluated = 1

(***************************************************************************)
(* Transcription runners: scripts/cloud_stt_runner.py and                  *)
(* scripts/edenai_stt_runner.py                                            *)
(*                                                                         *)
(* config is self.config['runs'] of the runner object, disk the files the  *)
(* runner reads and writes, call the run_transcription call in progress    *)
(* and log one entry per finished call.  A process constructs one runner,  *)
(* which loads the config file; run_transcription is then called on it.    *)
(***************************************************************************)
MaxRunnerRuns == 1

MaxCalls == 2

RunTypes == {"cloud-stt", "local-stt"}

\* provider names found in a config: a capitalised one, the unimplemented
\* one, one that Eden AI maps to another provider, and an unknown one
Providers == {"OpenAI", "deepgram", "groq", "acme"}

\* str.lower() on a provider name
ProviderLower(provider) == IF provider = "OpenAI" THEN "openai" ELSE provider

RunnerConfigs ==
  UNION {{[k \in 1..n |-> [run_id    |-> k,
                           completed |-> f[k].completed,
                           run_type  |-> f[k].run_type,
                           provider  |-> f[k].provider]] :
            f \in [1..n -> [completed : BOOLEAN,
                            run_type  : RunTypes,
                            provider  : Providers]]} :
         n \in 1..MaxRunnerRuns}

ConfigFile(runs) == [valid |-> TRUE, runs |-> runs]

\* a config file opened for writing whose dump did not finish
TruncatedFile == [valid |-> FALSE]

RunIdsOf(runs) == {runs[k].run_id : k \in DOMAIN runs}

\* the transcribe_* method of the cloud runner chosen by the dispatch, as
\* the set of its results: the transcript is returned, or an exception
CloudTranscribe(provider) ==
  IF provider \in {"openai", "assemblyai", "groq", "speechmatics"}
  THEN {[kind |-> "returned", called |-> TRUE],
        [kind |-> "raised", called |-> FALSE, error |-> "ImportError"],
        [kind |-> "raised", called |-> FALSE, error |-> "ValueError"],
        [kind |-> "raised", called |-> TRUE, error |-> "Exception"]}
  ELSE IF provider = "deepgram"
  THEN {[kind |-> "raised", called |-> FALSE, error |-> "ImportError"],
        [kind |-> "raised", called |-> FALSE, error |-> "ValueError"],
        [kind |-> "raised", called |-> FALSE, error |-> "NotImplementedError"]}
  ELSE {[kind |-> "raised", called |-> FALSE, error |-> "ValueError"]}

\* EdenAISTTRunner.PROVIDER_MAPPING.get(provider.lower(), provider.lower())
EdenProvider(provider) ==
  IF ProviderLower(provider) = "groq" THEN "openai" ELSE ProviderLower(provider)

\* EdenAISTTRunner.transcribe_audio as the set of its results: a dict with
\* a non-empty text, or the exception it re-raises
EdenTranscribe(provider) ==
  {[kind |-> "returned", called |-> TRUE],
   [kind |-> "raised", called |-> TRUE, error |-> "RequestException"],
   [kind |-> "raised", called |-> TRUE, error |-> "Exception"]}

\* open(path, 'w') followed by a write: both succeed, open raises and the
\* file is untouched, or the write raises after the file was truncated
WriteOutcomes == {"ok", "open_raises", "write_raises"}

AfterWrite(before, outcome) ==
  IF outcome = "ok" THEN "written"
  ELSE IF outcome = "open_raises" THEN before
  ELSE "partial"

NoCall == [status |-> "none"]

\* the state of the files when a runner is constructed: the output of a
\* run is there when the run is marked completed
InitRunner ==
  /\ script \in {"cloud", "edenai"}
  /\ config \in RunnerConfigs
  /\ \E audio \in BOOLEAN :
       disk = [config_file |-> ConfigFile(config),
               audio       |-> audio,
               dirs        |-> {k \in DOMAIN config : config[k].completed},
               transcript  |-> [k \in DOMAIN config |->
                                  IF config[k].completed THEN "written" ELSE "absent"],
               metadata    |-> [k \in DOMAIN config |->
                                  IF config[k].completed THEN "written" ELSE "absent"]]
  /\ call = NoCall
  /\ pc = "idle"
  /\ log = <<>>
  /\ reference = <<>>
  /\ hypothesis = <<>>
  /\ tieOrder = <<"diag", "del", "ins">>
  /\ metrics = NoMetrics
  /\ idx = 0
  /\ results = <<>>
  /\ saved = [status |-> "none"]
  /\ ranking = <<>>

\* main of either script in a new process: the runner loads the config file
NewRunner ==
  /\ pc = "idle"
  /\ disk.config_file.valid
  /\ script' \in {"cloud", "edenai"}
  /\ config' = disk.config_file.runs
  /\ UNCHANGED <<disk, call, reference, hypothesis, tieOrder, metrics, pc,
                 idx, results, log, saved, ranking>>

CanCall == pc = "idle" /\ Len(log) < MaxCalls

\* run_config.get('completed')
AlreadyCompletedNever(run) == FALSE

AlreadyCompleted(run) == run.completed

\* the call ends: it returns, or an exception reaches the caller
Finish(run_id, outcome, error, called, newConfig, newDisk) ==
  /\ log' = Append(log, [script  |-> script,
                         run_id  |-> run_id,
                         outcome |-> outcome,
                         error   |-> error,
                         called  |-> called,
                         written |-> IF call = NoCall THEN {} ELSE call.written])
  /\ config' = newConfig
  /\ disk' = newDisk
  /\ call' = NoCall
  /\ pc' = "idle"
  /\ UNCHANGED <<reference, hypothesis, tieOrder, metrics, script,
                 idx, results, saved, ranking>>

\* run_transcription: no run of the config has this run id
RunNotFound ==
  /\ CanCall
  /\ \E run_id \in 1..(MaxRunnerRuns + 1) :
       /\ run_id \notin RunIdsOf(config)
       /\ Finish(run_id, "raised", "ValueError", FALSE, config, disk)

\* run_transcription: the run is already completed
RunSkipCompleted ==
  /\ CanCall
  /\ \E k \in DOMAIN config :
       /\ AlreadyCompleted(config[k])
       /\ Finish(config[k].run_id, "returned", "none", FALSE, config, disk)

\* run_transcription: the run is not a cloud STT run
RunSkipType ==
  /\ CanCall
  /\ \E k \in DOMAIN config :
       /\ ~AlreadyCompleted(config[k])
       /\ config[k].run_type # "cloud-stt"
       /\ Finish(config[k].run_id, "returned", "none", FALSE, config, disk)

Pending(k) ==
  /\ ~AlreadyCompleted(config[k])
  /\ config[k].run_type = "cloud-stt"

\* run_transcription: the audio file does not exist
RunAudioMissing ==
  /\ CanCall
  /\ \E k \in DOMAIN config :
       /\ Pending(k)
       /\ ~disk.audio
       /\ Finish(config[k].run_id, "raised", "FileNotFoundError", FALSE, config, disk)

\* run_transcription: output_dir.mkdir raises
RunMkdirError ==
  /\ CanCall
  /\ \E k \in DOMAIN config :
       /\ Pending(k)
       /\ disk.audio
       /\ Finish(config[k].run_id, "raised", "OSError", FALSE, config, disk)

\* run_transcription up to the try block: the output directory is created
RunStart ==
  /\ CanCall
  /\ \E k \in DOMAIN config :
       /\ Pending(k)
       /\ disk.audio
       /\ disk' = [disk EXCEPT !.dirs = @ \cup {k}]
       /\ call' = [status |-> "running", run |-> k,
                   called |-> FALSE, written |-> {}]
       /\ pc' = "transcribe"
       /\ UNCHANGED <<reference, hypothesis, tieOrder, metrics, script,
                      config, idx, results, log, saved, ranking>>

Step(nextPc, newCall, newDisk) ==
  /\ pc' = nextPc
  /\ call' = newCall
  /\ disk' = newDisk
  /\ UNCHANGED <<reference, hypothesis, tieOrder, metrics, script,
                 config, idx, results, log, saved, ranking>>

\* run_transcription: the provider call
Transcribe ==
  /\ pc = "transcribe"
  /\ LET run == config[call.run]
     IN \E r \in (IF script = "cloud"
                  THEN CloudTranscribe(ProviderLower(run.provider))
                  ELSE EdenTranscribe(EdenProvider(run.provider))) :
          IF r.kind = "returned"
          THEN Step("write_transcript", [call EXCEPT !.called = r.called], disk)
          ELSE Finish(run.run_id, "raised", r.error, r.called, config, disk)

\* run_transcription: transcript.txt is written
WriteTranscript ==
  /\ pc = "write_transcript"
  /\ \E outcome \in WriteOutcomes :
       LET k == call.run
           newDisk == [disk EXCEPT !.transcript[k] = AfterWrite(@, outcome)]
       IN IF outcome = "ok"
          THEN Step("write_metadata",
                    [call EXCEPT !.written = @ \cup {"transcript"}], newDisk)
          ELSE Finish(config[k].run_id, "raised", "OSError", call.called, config, newDisk)

\* run_transcription: metadata.json is written
WriteMetadata ==
  /\ pc = "write_metadata"
  /\ \E outcome \in WriteOutcomes :
       LET k == call.run
           newDisk == [disk EXCEPT !.metadata[k] = AfterWrite(@, outcome)]
       IN IF outcome = "ok"
          THEN Step("mark_completed",
                    [call EXCEPT !.written = @ \cup {"metadata"}], newDisk)
          ELSE Finish(config[k].run_id, "raised", "OSError", call.called, config, newDisk)

\* run_transcription: the run is marked completed, then the config file is
\* rewritten
MarkCompleted ==
  /\ pc = "mark_completed"
  /\ \E outcome \in WriteOutcomes :
       LET k == call.run
           marked == [config EXCEPT ![k].completed = TRUE]
       IN IF outcome = "ok"
          THEN Finish(config[k].run_id, "returned", "none", call.called, marked,
                      [disk EXCEPT !.config_file = ConfigFile(marked)])
          ELSE IF outcome = "open_raises"
          THEN Finish(config[k].run_id, "raised", "OSError", call.called, marked, disk)
          ELSE Finish(config[k].run_id, "raised", "OSError", call.called, marked,
                      [disk EXCEPT !.config_file = TruncatedFile])

NextRunner ==
  \/ NewRunner
  \/ RunNotFound
  \/ RunSkipCompleted
  \/ RunSkipType
  \/ RunAudioMissing
  \/ RunMkdirError
  \/ RunStart
  \/ Transcribe
  \/ WriteTranscript
  \/ WriteMetadata
  \/ MarkCompleted

SpecRunner == InitRunner /\ [][NextRunner]_vars

(***************************************************************************)
(* Properties of run_transcription                                         *)
(***************************************************************************)
\* this step sets the completed flag of a run in self.config
FlagSet == \E k \in DOMAIN config : ~config[k].completed /\ config'[k].completed

\* this step writes to the config file
ConfigRewritten == disk'.config_file # disk.config_file

\* this step ends a call
CallEnds == Len(log') > Len(log)

\* C23: in run_transcription of both runners the completed flag becomes
\* true and the config file is rewritten only after transcript.txt and
\* metadata.json have been written by the call; when the provider call or
\* any write raises, the flag stays false, the config file is not rewritten
\* and the exception reaches the caller.
C23_CompletedOnlyAfterSuccess ==
  [][/\ (FlagSet \/ ConfigRewritten) =>
          /\ call.status = "running"
          /\ call.written = {"transcript", "metadata"}
          /\ disk.transcript[call.run] = "written"
          /\ disk.metadata[call.run] = "written"
     /\ (CallEnds /\ log'[Len(log')].outcome = "raised") =>
          /\ ~FlagSet
          /\ ~ConfigRewritten
          /\ pc' = "idle"]_vars

\* the run a call that begins in this step is about
CalledRun ==
  IF CallEnds THEN log'[Len(log')].run_id ELSE config[call'.run].run_id

\* a successful transcription: the provider was called and the call returned
Transcribed(entry) == entry.outcome = "returned" /\ entry.called

max_attempts == 120

\* the status field of a status response (any other value than finished
\* and failed keeps the loop going), or an HTTP error status
PollStatuses == {"finished", "failed", "processing", "http_error"}

\* the providers for which the results of a response hold a non-empty text
PollTexts == {{}, {"openai"}, {"deepgram"}}

PollResponses == [status : PollStatuses, texts : PollTexts]

\* provider_results.get('text', '') is not empty
HasText(response, edenai_provider) == edenai_provider \in response.texts

\* range(max_attempts) has no value after this one
LoopExhaustedLate(attempt) == attempt >= max_attempts

LoopExhausted(attempt) == attempt + 1 >= max_attempts

InitPoll ==
  /\ script = "edenai"
  /\ \E provider \in Providers :
       call = [status   |-> "running",
               provider |-> provider,
               attempt  |-> 0,
               requests |-> 0,
               last     |-> [status |-> "none", texts |-> {}]]
  /\ pc = "submit"
  /\ metrics = NoMetrics
  /\ disk = [status |-> "none"]
  /\ reference = <<>>
  /\ hypothesis = <<>>
  /\ tieOrder = <<"diag", "del", "ins">>
  /\ config = <<>>
  /\ idx = 0
  /\ results = <<>>
  /\ log = <<>>
  /\ saved = [status |-> "none"]
  /\ ranking = <<>>

\* transcribe_audio returns or raises
EndPoll(nextPc, result, newCall) ==
  /\ pc' = nextPc
  /\ metrics' = result
  /\ call' = newCall
  /\ UNCHANGED <<disk, reference, hypothesis, tieOrder,
                 script, config, idx, results, log, saved, ranking>>

\* transcribe_audio: the job is submitted
Submit ==
  /\ pc = "submit"
  /\ \E outcome \in {"job_id", "http_error", "no_job_id"} :
       IF outcome = "job_id" THEN EndPoll("poll", metrics, call)
       ELSE IF outcome = "http_error"
       THEN EndPoll("raised", Raised("RequestException"), call)
       ELSE EndPoll("raised", Raised("No job ID returned"), call)

\* transcribe_audio: one iteration of the polling loop, with the raise that
\* follows the loop when it was the last one
Poll ==
  /\ pc = "poll"
  /\ \E response \in PollResponses :
       LET polled == [call EXCEPT !.requests = @ + 1, !.last = response]
       IN IF response.status = "http_error"
          THEN EndPoll("raised", Raised("RequestException"), polled)
          ELSE IF response.status = "finished"
          THEN IF HasText(response, EdenProvider(call.provider))
               THEN EndPoll("returned",
                            [status   |-> "returned",
                             provider |-> EdenProvider(call.provider)],
                            polled)
               ELSE EndPoll("raised", Raised("No text in results"), polled)
          ELSE IF response.status = "failed"
          THEN EndPoll("raised", Raised("Transcription failed"), polled)
          ELSE IF LoopExhausted(call.attempt)
          THEN EndPoll("raised", Raised("Transcription timed out"), polled)
          ELSE EndPoll("poll", metrics, [polled EXCEPT !.attempt = @ + 1])

NextPoll == Submit \/ Poll

SpecPoll == InitPoll /\ [][NextPoll]_vars

\* the script runs on: a request returns a response or raises
SpecPollFair == SpecPoll /\ WF_vars(NextPoll)

PollEnded == pc \in {"returned", "raised"}

\* C25: the polling loop makes at most 120 status requests and always ends;
\* it returns only on a response 'finished' with a non-empty text for the
\* mapped provider, and raises on 'failed', on 'finished' without text, and
\* with a timeout after the 120th response when that one is neither.
C25_PollingBounded ==
  /\ [](call.requests <= max_attempts)
  /\ [](pc = "returned" =>
          /\ call.last.status = "finished"
          /\ HasText(call.last, EdenProvider(call.provider)))
  /\ [](call.last.status = "failed" => metrics = Raised("Transcription failed"))
  /\ []((call.last.status = "finished"
          /\ ~HasText(call.last, EdenProvider(call.provider)))
        => metrics = Raised("No text in results"))
  /\ []((call.requests = max_attempts /\ call.last.status = "processing")
        => metrics = Raised("Transcription timed out"))
  /\ [](metrics.status = "raised" => pc = "raised")
  /\ <>PollEnded

\* the 120th response still says processing
C25_Witness ==
  /\ pc = "raised"
  /\ metrics = Raised("Transcription timed out")
  /\ call.requests = max_attempts
  /\ call.attempt = max_attempts - 1

(***************************************************************************)
(* SRT conversion: scripts/srt_to_text.py                                  *)
(*                                                                         *)
(* The content of a file is a sequence of characters; "NL", "SP", "TAB"    *)
(* and "BOM" stand for the newline, the space, the tab and U+FEFF.         *)
(***************************************************************************)
MaxSrtLines == 7

\* lines of an SRT file: empty, blank, a number, a text with surrounding
\* and repeated whitespace
SrtLines == {<<>>, <<"SP">>, <<"1">>, <<"TAB", "a", "SP", "SP", "b", "SP">>}

\* the characters matched by \s and removed by str.strip()
SrtWhitespace == {"SP", "TAB", "NL"}

\* sep.join(parts) on character sequences
RECURSIVE JoinWith(_, _)
JoinWith(parts, sep) ==
  IF parts = <<>> THEN <<>>
  ELSE IF Len(parts) = 1 THEN parts[1]
  ELSE parts[1] \o sep \o JoinWith(Tail(parts), sep)

SrtContents ==
  {prefix \o JoinWith(lines, <<"NL">>) :
     prefix \in {<<>>, <<"BOM">>}, lines \in SeqsUpTo(SrtLines, MaxSrtLines)}

\* content.lstrip('﻿')
RECURSIVE LStripBom(_)
LStripBom(s) ==
  IF s # <<>> /\ Head(s) = "BOM" THEN LStripBom(Tail(s)) ELSE s

RECURSIVE SrtLStrip(_)
SrtLStrip(s) ==
  IF s # <<>> /\ Head(s) \in SrtWhitespace THEN SrtLStrip(Tail(s)) ELSE s

RECURSIVE SrtRStrip(_)
SrtRStrip(s) ==
  IF s # <<>> /\ s[Len(s)] \in SrtWhitespace THEN SrtRStrip(Front(s)) ELSE s

\* str.strip()
SrtStrip(s) == SrtRStrip(SrtLStrip(s))

\* the end of the longest match of \n\s*\n that starts at the newline s[i]:
\* the last newline of the whitespace that follows it, 0 when there is none
RECURSIVE MatchEnd(_, _, _)
MatchEnd(s, j, best) ==
  IF j > Len(s) \/ s[j] \notin SrtWhitespace THEN best
  ELSE MatchEnd(s, j + 1, IF s[j] = "NL" THEN j ELSE best)

\* re.split(r'\n\s*\n', s): the pieces between the leftmost matches
RECURSIVE SplitBlocksFrom(_, _, _)
SplitBlocksFrom(s, start, i) ==
  IF i > Len(s) THEN <<SubSeq(s, start, Len(s))>>
  ELSE LET end == IF s[i] = "NL" THEN MatchEnd(s, i + 1, 0) ELSE 0
       IN IF end # 0
          THEN <<SubSeq(s, start, i - 1)>> \o SplitBlocksFrom(s, end + 1, end + 1)
          ELSE SplitBlocksFrom(s, start, i + 1)

SplitBlocks(s) == SplitBlocksFrom(s, 1, 1)

\* s.split('\n')
RECURSIVE SplitLinesFrom(_, _, _)
SplitLinesFrom(s, start, i) ==
  IF i > Len(s) THEN <<SubSeq(s, start, Len(s))>>
  ELSE IF s[i] = "NL"
       THEN <<SubSeq(s, start, i - 1)>> \o SplitLinesFrom(s, i + 1, i + 1)
       ELSE SplitLinesFrom(s, start, i + 1)

SplitLines(s) == SplitLinesFrom(s, 1, 1)

\* the text_content of a block: its lines from the second one on
BlockTextKeepsTimestamp(block) ==
  LET lines    == SplitLines(SrtStrip(block))
      stripped == [k \in 1..(Len(lines) - 1) |-> SrtStrip(lines[k + 1])]
  IN SelectSeq(stripped, LAMBDA line : line # <<>>)

\* the text_content of a block: the stripped non-empty lines after the
\* first two
BlockText(block) ==
  LET lines    == SplitLines(SrtStrip(block))
      stripped == [k \in 1..(Len(lines) - 2) |-> SrtStrip(lines[k + 2])]
  IN SelectSeq(stripped, LAMBDA line : line # <<>>)

\* text_lines after the loop over the blocks
RECURSIVE TextLines(_, _)
TextLines(blocks, join_fragments) ==
  IF blocks = <<>> THEN <<>>
  ELSE LET text_content == BlockText(Head(blocks))
           rest         == TextLines(Tail(blocks), join_fragments)
       IN IF text_content = <<>> THEN rest
          ELSE IF join_fragments
               THEN <<JoinWith(text_content, <<"SP">>)>> \o rest
               ELSE text_content \o rest

\* re.sub(r'\s+', ' ', s)
RECURSIVE CollapseWhitespace(_)
CollapseWhitespace(s) ==
  IF s = <<>> THEN <<>>
  ELSE IF Head(s) \in SrtWhitespace
       THEN <<"SP">> \o CollapseWhitespace(SrtLStrip(s))
       ELSE <<Head(s)>> \o CollapseWhitespace(Tail(s))

\* srt_to_plaintext, the returned string
srt_to_plaintext(content, join_fragments) ==
  LET blocks     == SplitBlocks(SrtStrip(LStripBom(content)))
      text_lines == TextLines(blocks, join_fragments)
      plain_text == JoinWith(text_lines, <<"SP">>)
  IN SrtStrip(CollapseWhitespace(plain_text))

InitSrt ==
  /\ reference \in SrtContents
  /\ hypothesis = <<>>
  /\ tieOrder = <<"diag", "del", "ins">>
  /\ metrics = NoMetrics
  /\ pc = "start"
  /\ BatchIdle
  /\ RunnerIdle

\* srt_to_plaintext(srt_path, output_path, join_fragments): the text is
\* returned, and written when an output path is given
Convert ==
  /\ pc = "start"
  /\ \E join_fragments \in BOOLEAN, output_path \in BOOLEAN :
       LET plain_text == srt_to_plaintext(reference, join_fragments)
       IN /\ metrics' = [status |-> "ok", plain_text |-> plain_text]
          /\ saved' = IF output_path
                      THEN [status |-> "saved", text |-> plain_text]
                      ELSE saved
  /\ pc' = "converted"
  /\ UNCHANGED <<disk, call, reference, hypothesis, tieOrder,
                 script, config, idx, results, log, ranking>>

SpecSrt == InitSrt /\ [][Convert]_vars

(***************************************************************************)
(* Properties of srt_to_plaintext                                          *)
(***************************************************************************)
IsBlank(line) == \A k \in DOMAIN line : line[k] \in SrtWhitespace

\* the words of a line: its maximal runs of non-whitespace characters
RECURSIVE WordsFrom(_, _)
WordsFrom(line, word) ==
  IF line = <<>> THEN (IF word = <<>> THEN <<>> ELSE <<word>>)
  ELSE IF Head(line) \in SrtWhitespace
       THEN (IF word = <<>> THEN <<>> ELSE <<word>>) \o WordsFrom(Tail(line), <<>>)
       ELSE WordsFrom(Tail(line), Append(word, Head(line)))

\* the words of the lines of a block that follow its first two lines
RECURSIVE WordsAfterHeader(_, _)
WordsAfterHeader(lines, k) ==
  IF k > Len(lines) THEN <<>>
  ELSE (IF k >= 3 THEN WordsFrom(lines[k], <<>>) ELSE <<>>)
         \o WordsAfterHeader(lines, k + 1)

\* the blocks of a file read line by line: a blank line closes the block,
\* block is the block read so far
RECURSIVE SubtitleWords(_, _)
SubtitleWords(lines, block) ==
  IF lines = <<>> THEN WordsAfterHeader(block, 1)
  ELSE IF IsBlank(Head(lines))
       THEN WordsAfterHeader(block, 1) \o SubtitleWords(Tail(lines), <<>>)
       ELSE SubtitleWords(Tail(lines), Append(block, Head(lines)))

\* C26: the output of srt_to_plaintext is made of the words of the third
\* and later lines of each blank-line-separated block, in block order,
\* separated by single spaces: nothing of the first two lines of a block and
\* nothing of a block of fewer than three lines is in it, it has no leading
\* or trailing whitespace and no two adjacent whitespace characters.
C26_OnlySubtitleText ==
  pc = "converted" =>
    LET text == metrics.plain_text
    IN /\ text = JoinWith(SubtitleWords(SplitLines(LStripBom(reference)), <<>>),
                          <<"SP">>)
       /\ text # <<>> => (text[1] \notin SrtWhitespace
                          /\ text[Len(text)] \notin SrtWhitespace)
       /\ \A k \in 1..(Len(text) - 1) :
            ~(text[k] \in SrtWhitespace /\ text[k + 1] \in SrtWhitespace)
       /\ saved.status = "saved" => saved.text = text

\* a file with a byte order mark and two blocks of three lines, the text of
\* both in the output
C26_Witness ==
  /\ pc = "converted"
  /\ Len(SplitLines(reference)) = 7
  /\ reference[1] = "BOM"
  /\ metrics.plain_text = <<"1", "SP", "a", "SP", "b">>
  /\ saved.status = "saved"

====
